---------------------------- MODULE Spec2Model ----------------------------
(***************************************************************************)
(* Model of the comparison and diff core of src/App.tsx and of the two     *)
(* process handlers of the App component that call it.                     *)
(*                                                                         *)
(* A JavaScript string is modelled as a sequence of characters, and a      *)
(* character as a one-character TLA+ string.  An optional value (null or   *)
(* a value) is a sequence of length 0 or 1.                                *)
(***************************************************************************)
EXTENDS Integers, Sequences, FiniteSets, TLC

VARIABLES
    call,        \* the pending call of a comparison helper: its name and arguments
    ret,         \* what that call returned: <<>> before it ran, <<value>> after
    oldChars,    \* diffStrings: Array.from(oldStr)
    newChars,    \* diffStrings: Array.from(newStr)
    matrix,      \* diffStrings: the LCS table, matrix[i][j]
    i,           \* diffStrings: back-trace row
    j,           \* diffStrings: back-trace column
    result,      \* diffStrings: the per-character spans, in left-to-right order
    coalesced,   \* diffStrings: the returned list of runs
    dpc,         \* diffStrings: position in the function
    activeTab,          \* App state: "single" or "multi"
    singleFile,         \* App state: the file of the single tab, or null
    processableFiles,   \* App state: the files of the multi tab
    singleResult,       \* App state: the enriched data of the single file, or null
    comparisonResult,   \* App state: the comparison of the first two records, or null
    multiFileResults,   \* App state: the records extracted from the files
    isLoading,          \* App state: a process action is in flight
    error,              \* App state: the message shown, or null
    nextId,             \* the number of files selected so far (ids are unique)
    singleRun,          \* the in-flight handleProcessSingleFile call: the await it is at
    multiRun            \* the in-flight handleProcessMultiFile call: the list it closed
                        \* over and the state of each file's promise

helperVars == <<call, ret>>
diffVars == <<oldChars, newChars, matrix, i, j, result, coalesced, dpc>>
appVars == <<activeTab, singleFile, processableFiles, singleResult, comparisonResult,
             multiFileResults, isLoading, error, nextId, singleRun, multiRun>>
vars == <<call, ret, oldChars, newChars, matrix, i, j, result, coalesced, dpc,
          activeTab, singleFile, processableFiles, singleResult, comparisonResult,
          multiFileResults, isLoading, error, nextId, singleRun, multiRun>>

(***************************************************************************)
(* Bounds of the model.                                                    *)
(***************************************************************************)
MaxAccLen == 3      \* longest account-number argument
MaxStrLen == 5      \* longest fuzzyMatch / Levenshtein argument
MaxDiffLen == 3     \* longest diffStrings argument
MaxValLen == 2      \* longest field value given to the field comparison alone
MaxUploads == 2     \* files selected over the life of the App

(***************************************************************************)
(* Characters.                                                             *)
(***************************************************************************)
AsciiUpper == {"A", "B"}
AsciiLower == {"a", "b"}
AsciiDigits == {"1", "2"}
Whitespace == {" ", "\t"}

\* String.prototype.toUpperCase on one character.
UpperOf(c) ==
    CASE c = "a" -> "A"
      [] c = "b" -> "B"
      [] c = "é" -> "É"
      [] OTHER -> c

\* String.prototype.toLowerCase on one character.
LowerOf(c) ==
    CASE c = "A" -> "a"
      [] c = "B" -> "b"
      [] c = "É" -> "é"
      [] OTHER -> c

toUpperCase(s) == [k \in 1..Len(s) |-> UpperOf(s[k])]
toLowerCase(s) == [k \in 1..Len(s) |-> LowerOf(s[k])]

\* All strings over chars of length at most n.
Strings(chars, n) == UNION {[1..k -> chars] : k \in 0..n}

Max(x, y) == IF x >= y THEN x ELSE y
Min(x, y) == IF x <= y THEN x ELSE y

(***************************************************************************)
(* compareAccountNumbers                                                   *)
(***************************************************************************)
\* The complement of the class [^A-Z0-9] under the i flag: an ASCII letter
\* of either case or an ASCII digit.
IsAccountChar(c) == c \in AsciiUpper \cup AsciiLower \cup AsciiDigits

\* acc.replace(/[^A-Z0-9]/gi, '')
stripNonAlnum(s) == SelectSeq(s, IsAccountChar)

\* String.prototype.startsWith, in the place of endsWith.
startsWith(s, t) ==
    /\ Len(t) <= Len(s)
    /\ SubSeq(s, 1, Len(t)) = t

\* String.prototype.endsWith
endsWith(s, t) ==
    /\ Len(t) <= Len(s)
    /\ SubSeq(s, Len(s) - Len(t) + 1, Len(s)) = t

\* compareAccountNumbers without its two emptiness guards.
compareAccountNumbersUnguarded(acc1, acc2) ==
    LET norm1 == toUpperCase(stripNonAlnum(acc1))
        norm2 == toUpperCase(stripNonAlnum(acc2))
    IN  IF norm1 = norm2 THEN TRUE
        ELSE LET shorter == IF Len(norm1) < Len(norm2) THEN norm1 ELSE norm2
                 longer == IF Len(norm1) < Len(norm2) THEN norm2 ELSE norm1
             IN  /\ Len(shorter) <= Len(longer)
                 /\ SubSeq(longer, Len(longer) - Len(shorter) + 1, Len(longer)) = shorter

compareAccountNumbers(acc1, acc2) ==
    IF acc1 = <<>> \/ acc2 = <<>> THEN FALSE
    ELSE LET norm1 == toUpperCase(stripNonAlnum(acc1))
             norm2 == toUpperCase(stripNonAlnum(acc2))
         IN  IF Len(norm1) = 0 \/ Len(norm2) = 0 THEN FALSE
             ELSE IF norm1 = norm2 THEN TRUE
             ELSE LET shorter == IF Len(norm1) < Len(norm2) THEN norm1 ELSE norm2
                      longer == IF Len(norm1) < Len(norm2) THEN norm2 ELSE norm1
                  IN  endsWith(longer, shorter)

(***************************************************************************)
(* calculateLevenshteinDistance                                            *)
(***************************************************************************)
Min3(x, y, z) == Min(x, Min(y, z))

\* The inner loop over i for one row j >= 1: row holds matrix[j][0..i-1],
\* prev holds matrix[j-1]; column i is kept at index i + 1.
RECURSIVE levRow(_, _, _, _, _)
levRow(prev, row, a, bj, col) ==
    IF col > Len(a) THEN row
    ELSE LET indicator == IF a[col] = bj THEN 0 ELSE 1
             cell == Min3(row[col] + 1, prev[col + 1] + 1, prev[col] + indicator)
         IN  levRow(prev, Append(row, cell), a, bj, col + 1)

\* The outer loop with the first column initialised to j instead of j + 1.
RECURSIVE levRowsFirstColumnOff(_, _, _, _)
levRowsFirstColumnOff(prev, a, b, row) ==
    IF row > Len(b) THEN prev
    ELSE levRowsFirstColumnOff(levRow(prev, <<row - 1>>, a, b[row], 1), a, b, row + 1)

\* The outer loop over j: returns the last row, matrix[b.length].
RECURSIVE levRows(_, _, _, _)
levRows(prev, a, b, row) ==
    IF row > Len(b) THEN prev
    ELSE levRows(levRow(prev, <<row>>, a, b[row], 1), a, b, row + 1)

calculateLevenshteinDistance(a, b) ==
    IF Len(a) = 0 THEN Len(b)
    ELSE IF Len(b) = 0 THEN Len(a)
    ELSE LET row0 == [k \in 1..(Len(a) + 1) |-> k - 1]
         IN  levRows(row0, a, b, 1)[Len(a) + 1]

(***************************************************************************)
(* JavaScript numbers.  distance / maxLength, 1 - quotient and the         *)
(* comparison with the tolerance are IEEE 754 double operations: each      *)
(* result is rounded to 53 significant bits, ties to even.  A value in     *)
(* [0, 2) is a sequence of bits, the first of weight 1 and bit n of weight *)
(* 2^-(n-1).  A tolerance is given in tenths: 7 is the literal 0.7.        *)
(***************************************************************************)
SigBits == 53       \* significant bits of a double
FracBits == 64      \* bits kept after the binary point

BitWidth == FracBits + 1

MaxOf(S) == CHOOSE x \in S : \A y \in S : y <= x
MinOf(S) == CHOOSE x \in S : \A y \in S : x <= y

\* The first n bits after the binary point of r / q, for 0 <= r < q, appended
\* to acc, and the remainder left over.
RECURSIVE fractionBits(_, _, _, _)
fractionBits(r, q, n, acc) ==
    IF n = 0 THEN [bits |-> acc, rest |-> r]
    ELSE fractionBits((2 * r) % q, q, n - 1, Append(acc, (2 * r) \div q))

\* The binary expansion of p / q, for 0 <= p < 2 * q.
expand(p, q) == fractionBits(p % q, q, FracBits, <<p \div q>>)

\* bits with one unit added at position pos, every bit after pos being 0.
increment(bits, pos) ==
    LET z == MaxOf({n \in 1..pos : bits[n] = 0})
    IN  [n \in 1..BitWidth |-> IF n < z THEN bits[n] ELSE IF n = z THEN 1 ELSE 0]

\* Rounding to the nearest double, ties to even.
roundToDouble(x) ==
    LET ones == {n \in 1..BitWidth : x.bits[n] = 1}
    IN  IF ones = {} THEN x.bits
        ELSE LET last == MinOf(ones) + SigBits - 1
             IN  IF last >= BitWidth THEN x.bits
                 ELSE LET guard == x.bits[last + 1]
                          sticky == \/ x.rest # 0
                                    \/ \E n \in (last + 2)..BitWidth : x.bits[n] = 1
                          kept == [n \in 1..BitWidth |->
                                      IF n <= last THEN x.bits[n] ELSE 0]
                      IN  IF guard = 1 /\ (sticky \/ x.bits[last] = 1)
                          THEN increment(kept, last)
                          ELSE kept

\* p / q as a double, for 0 <= p < 2 * q.
divide(p, q) == roundToDouble(expand(p, q))

\* 1 - q as a double, for a double 0 <= q <= 1.
oneMinus(q) ==
    LET ones == {n \in 1..BitWidth : q[n] = 1}
    IN  IF ones = {} THEN [n \in 1..BitWidth |-> IF n = 1 THEN 1 ELSE 0]
        ELSE IF q[1] = 1 THEN [n \in 1..BitWidth |-> 0]
        ELSE LET low == MaxOf(ones)
                 exact == [n \in 1..BitWidth |->
                              IF n = 1 THEN 0
                              ELSE IF n < low THEN 1 - q[n]
                              ELSE IF n = low THEN 1 ELSE 0]
             IN  roundToDouble([bits |-> exact, rest |-> 0])

\* x >= y on two non-negative doubles.
atLeast(x, y) ==
    LET differ == {n \in 1..BitWidth : x[n] # y[n]}
    IN  IF differ = {} THEN TRUE ELSE x[MinOf(differ)] = 1

\* 1 - distance / maxLength >= tolerance, as line 100 and 101 compute it.  A
\* Levenshtein distance is at most maxLength, so the similarity is not
\* negative; above that the sign alone decides against a tolerance >= 0.
similarityReaches(distance, maxLength, tolerance) ==
    IF distance > maxLength
    THEN tolerance < 0 /\ 10 * (maxLength - distance) >= tolerance * maxLength
    ELSE IF tolerance < 0 THEN TRUE
    ELSE atLeast(oneMinus(divide(distance, maxLength)), divide(tolerance, 10))

\* The comparison on the lengths and tolerances of the model, evaluated once.
TableMaxLength == Max(MaxStrLen, 4)
Tolerances == {-5, 0, 2, 5, 7, 8, 10, 12}

similarityTable ==
    [maxLength \in 1..TableMaxLength |->
        [distance \in 0..(2 * maxLength) |->
            [tolerance \in Tolerances |->
                similarityReaches(distance, maxLength, tolerance)]]]

(***************************************************************************)
(* fuzzyMatch                                                              *)
(***************************************************************************)
\* fuzzyMatch that rejects a similarity equal to the tolerance.
fuzzyMatchStrict(str1, str2, tolerance) ==
    IF str1 = <<>> /\ str2 = <<>> THEN TRUE
    ELSE IF str1 = <<>> \/ str2 = <<>> THEN FALSE
    ELSE LET distance == calculateLevenshteinDistance(str1, str2)
             maxLength == Max(Len(str1), Len(str2))
         IN  IF maxLength = 0 THEN TRUE
             ELSE similarityTable[maxLength][distance][tolerance]
                  /\ 10 * (maxLength - distance) # tolerance * maxLength

\* fuzzyMatch without its two emptiness guards.
fuzzyMatchUnguarded(str1, str2, tolerance) ==
    LET distance == calculateLevenshteinDistance(str1, str2)
        maxLength == Max(Len(str1), Len(str2))
    IN  IF maxLength = 0 THEN TRUE
        ELSE similarityTable[maxLength][distance][tolerance]

fuzzyMatch(str1, str2, tolerance) ==
    IF str1 = <<>> /\ str2 = <<>> THEN TRUE
    ELSE IF str1 = <<>> \/ str2 = <<>> THEN FALSE
    ELSE LET distance == calculateLevenshteinDistance(str1, str2)
             maxLength == Max(Len(str1), Len(str2))
         IN  IF maxLength = 0 THEN TRUE
             ELSE similarityTable[maxLength][distance][tolerance]

(***************************************************************************)
(* Calls of the helpers on bounded arguments.                              *)
(***************************************************************************)
AccountChars == {"a", "A", "1", " ", "é"}
FuzzyChars == {"a", "b"}

NoCall == [fn |-> "none"]

DiffIdle ==
    /\ oldChars = <<>>
    /\ newChars = <<>>
    /\ matrix = <<>>
    /\ i = 0
    /\ j = 0
    /\ result = <<>>
    /\ coalesced = <<>>
    /\ dpc = "idle"

\* The state of the App component after construction (lines 347-354).
AppInit ==
    /\ activeTab = "single"
    /\ singleFile = <<>>
    /\ processableFiles = <<>>
    /\ singleResult = <<>>
    /\ comparisonResult = <<>>
    /\ multiFileResults = <<>>
    /\ isLoading = FALSE
    /\ error = <<>>
    /\ nextId = 0
    /\ singleRun = [pc |-> "idle", data |-> <<>>]
    /\ multiRun = [phase |-> "idle", snapshot |-> <<>>, promises |-> <<>>]

InitAccount ==
    /\ call \in [fn : {"compareAccountNumbers"},
                 acc1 : Strings(AccountChars, MaxAccLen),
                 acc2 : Strings(AccountChars, MaxAccLen)]
    /\ ret = <<>>
    /\ DiffIdle
    /\ AppInit

CallCompareAccountNumbers ==
    /\ call.fn = "compareAccountNumbers"
    /\ ret = <<>>
    /\ ret' = <<compareAccountNumbers(call.acc1, call.acc2)>>
    /\ UNCHANGED <<call, diffVars, appVars>>

SpecAccount == InitAccount /\ [][CallCompareAccountNumbers]_vars

InitFuzzy ==
    /\ \/ call \in [fn : {"fuzzyMatch"},
                    str1 : Strings(FuzzyChars, MaxStrLen),
                    str2 : Strings(FuzzyChars, MaxStrLen),
                    tolerance : Tolerances]
       \/ call \in [fn : {"calculateLevenshteinDistance"},
                    str1 : Strings(FuzzyChars, MaxStrLen),
                    str2 : Strings(FuzzyChars, MaxStrLen),
                    tolerance : {8}]
    /\ ret = <<>>
    /\ DiffIdle
    /\ AppInit

CallFuzzyMatch ==
    /\ call.fn = "fuzzyMatch"
    /\ ret = <<>>
    /\ ret' = <<fuzzyMatch(call.str1, call.str2, call.tolerance)>>
    /\ UNCHANGED <<call, diffVars, appVars>>

CallCalculateLevenshteinDistance ==
    /\ call.fn = "calculateLevenshteinDistance"
    /\ ret = <<>>
    /\ ret' = <<calculateLevenshteinDistance(call.str1, call.str2)>>
    /\ UNCHANGED <<call, diffVars, appVars>>

NextFuzzy == CallFuzzyMatch \/ CallCalculateLevenshteinDistance

SpecFuzzy == InitFuzzy /\ [][NextFuzzy]_vars

(***************************************************************************)
(* diffStrings, one step per loop iteration of the back-trace.             *)
(***************************************************************************)
DiffChars == {"a", "b", "c", "x"}

\* The inner loop over j with a matching pair of characters counted as nothing.
RECURSIVE lcsRowNoIncrement(_, _, _, _, _)
lcsRowNoIncrement(prev, row, oldCh, new, col) ==
    IF col > Len(new) THEN row
    ELSE LET cell == IF oldCh = new[col] THEN prev[col]
                     ELSE Max(prev[col + 1], row[col])
         IN  lcsRowNoIncrement(prev, Append(row, cell), oldCh, new, col + 1)

\* The inner loop over j for one row i >= 1 of the LCS table: row holds
\* matrix[i][0..j-1], prev holds matrix[i-1]; column j is kept at index j + 1.
RECURSIVE lcsRow(_, _, _, _, _)
lcsRow(prev, row, oldCh, new, col) ==
    IF col > Len(new) THEN row
    ELSE LET cell == IF oldCh = new[col] THEN prev[col] + 1
                     ELSE Max(prev[col + 1], row[col])
         IN  lcsRow(prev, Append(row, cell), oldCh, new, col + 1)

\* The outer loop over i: the rows matrix[0..old.length], row i at index i + 1.
RECURSIVE lcsRows(_, _, _, _)
lcsRows(rows, old, new, r) ==
    IF r > Len(old) THEN rows
    ELSE lcsRows(Append(rows, lcsRow(rows[r], <<0>>, old[r], new, 1)), old, new, r + 1)

\* The filled table as matrix[i][j], 0 <= i <= old.length, 0 <= j <= new.length.
lcsMatrix(old, new) ==
    LET rows == lcsRows(<<[k \in 1..(Len(new) + 1) |-> 0]>>, old, new, 1)
    IN  [r \in 0..Len(old) |-> [c \in 0..Len(new) |-> rows[r + 1][c + 1]]]

Span(v, a, r) == [value |-> v, added |-> a, removed |-> r]

\* Coalescing that joins added and removed characters but leaves every
\* unchanged character a span of its own.
RECURSIVE coalesceFromChangedOnly(_, _, _)
coalesceFromChangedOnly(out, res, k) ==
    IF k > Len(res) THEN out
    ELSE LET last == out[Len(out)]
             current == res[k]
         IN  IF /\ last.added = current.added
                /\ last.removed = current.removed
                /\ (current.added \/ current.removed)
             THEN coalesceFromChangedOnly(
                      [out EXCEPT ![Len(out)].value = last.value \o current.value], res, k + 1)
             ELSE coalesceFromChangedOnly(Append(out, current), res, k + 1)

\* The coalescing loop: out is the list built so far, k the next index of res.
RECURSIVE coalesceFrom(_, _, _)
coalesceFrom(out, res, k) ==
    IF k > Len(res) THEN out
    ELSE LET last == out[Len(out)]
             current == res[k]
         IN  IF last.added = current.added /\ last.removed = current.removed
             THEN coalesceFrom([out EXCEPT ![Len(out)].value = last.value \o current.value],
                               res, k + 1)
             ELSE coalesceFrom(Append(out, current), res, k + 1)

\* Coalescing that compares the added flag only.
RECURSIVE coalesceFromAddedOnly(_, _, _)
coalesceFromAddedOnly(out, res, k) ==
    IF k > Len(res) THEN out
    ELSE LET last == out[Len(out)]
             current == res[k]
         IN  IF last.added = current.added
             THEN coalesceFromAddedOnly(
                      [out EXCEPT ![Len(out)].value = last.value \o current.value], res, k + 1)
             ELSE coalesceFromAddedOnly(Append(out, current), res, k + 1)

coalesceAddedOnly(res) ==
    IF Len(res) = 0 THEN <<>> ELSE coalesceFromAddedOnly(<<res[1]>>, res, 2)

\* No coalescing: the per-character spans are returned as they are.
coalesceNothing(res) == res

coalesce(res) == IF Len(res) = 0 THEN <<>> ELSE coalesceFrom(<<res[1]>>, res, 2)

InitDiff ==
    /\ oldChars \in Strings(DiffChars, MaxDiffLen)
    /\ newChars \in Strings(DiffChars, MaxDiffLen)
    /\ matrix = <<>>
    /\ i = 0
    /\ j = 0
    /\ result = <<>>
    /\ coalesced = <<>>
    /\ dpc = "start"
    /\ call = NoCall
    /\ ret = <<>>
    /\ AppInit

\* Lines 106-122: the table is filled and the back-trace starts bottom-right.
BuildMatrix ==
    /\ dpc = "start"
    /\ matrix' = lcsMatrix(oldChars, newChars)
    /\ i' = Len(oldChars)
    /\ j' = Len(newChars)
    /\ dpc' = "trace"
    /\ UNCHANGED <<oldChars, newChars, result, coalesced, helperVars, appVars>>

\* The loop condition and the three branch conditions of lines 123-130, with
\* JavaScript's short-circuit evaluation of && and ||.
loopCondition == IF i > 0 THEN TRUE ELSE j > 0

unchangedCondition ==
    IF i > 0 /\ j > 0 THEN oldChars[i] = newChars[j] ELSE FALSE

\* The condition of the second branch with > in the place of >=.
addedConditionStrict ==
    IF j > 0
    THEN (IF i = 0 THEN TRUE ELSE matrix[i][j - 1] > matrix[i - 1][j])
    ELSE FALSE

addedCondition ==
    IF j > 0
    THEN (IF i = 0 THEN TRUE ELSE matrix[i][j - 1] >= matrix[i - 1][j])
    ELSE FALSE

removedCondition ==
    IF i > 0
    THEN (IF j = 0 THEN TRUE ELSE matrix[i][j - 1] < matrix[i - 1][j])
    ELSE FALSE

\* Lines 124-126.
TraceUnchanged ==
    /\ dpc = "trace"
    /\ loopCondition
    /\ unchangedCondition
    /\ result' = <<Span(<<oldChars[i]>>, FALSE, FALSE)>> \o result
    /\ i' = i - 1
    /\ j' = j - 1
    /\ UNCHANGED <<oldChars, newChars, matrix, coalesced, dpc, helperVars, appVars>>

\* Lines 127-129.
TraceAdded ==
    /\ dpc = "trace"
    /\ loopCondition
    /\ ~unchangedCondition
    /\ addedCondition
    /\ result' = <<Span(<<newChars[j]>>, TRUE, FALSE)>> \o result
    /\ j' = j - 1
    /\ UNCHANGED <<oldChars, newChars, matrix, i, coalesced, dpc, helperVars, appVars>>

\* The third branch with the flag of the second: the old character is tagged
\* added.
TraceRemovedAsAdded ==
    /\ dpc = "trace"
    /\ loopCondition
    /\ ~unchangedCondition
    /\ ~addedCondition
    /\ removedCondition
    /\ result' = <<Span(<<oldChars[i]>>, TRUE, FALSE)>> \o result
    /\ i' = i - 1
    /\ UNCHANGED <<oldChars, newChars, matrix, j, coalesced, dpc, helperVars, appVars>>

\* The third branch taken also when the two neighbouring cells are equal,
\* whether or not the second branch applies.
TraceRemovedOnTies ==
    /\ dpc = "trace"
    /\ loopCondition
    /\ ~unchangedCondition
    /\ IF i > 0
       THEN (IF j = 0 THEN TRUE ELSE matrix[i][j - 1] <= matrix[i - 1][j])
       ELSE FALSE
    /\ result' = <<Span(<<oldChars[i]>>, FALSE, TRUE)>> \o result
    /\ i' = i - 1
    /\ UNCHANGED <<oldChars, newChars, matrix, j, coalesced, dpc, helperVars, appVars>>

\* Lines 130-132.
TraceRemoved ==
    /\ dpc = "trace"
    /\ loopCondition
    /\ ~unchangedCondition
    /\ ~addedCondition
    /\ removedCondition
    /\ result' = <<Span(<<oldChars[i]>>, FALSE, TRUE)>> \o result
    /\ i' = i - 1
    /\ UNCHANGED <<oldChars, newChars, matrix, j, coalesced, dpc, helperVars, appVars>>

\* Lines 136-147: the loop has ended; the runs are coalesced and returned.
Coalesce ==
    /\ dpc = "trace"
    /\ ~loopCondition
    /\ coalesced' = coalesce(result)
    /\ dpc' = "done"
    /\ UNCHANGED <<oldChars, newChars, matrix, i, j, result, helperVars, appVars>>

NextDiff == BuildMatrix \/ TraceUnchanged \/ TraceAdded \/ TraceRemoved \/ Coalesce

SpecDiff == InitDiff /\ [][NextDiff]_vars

(***************************************************************************)
(* The comparison of two extracted records (handleProcessMultiFile, lines  *)
(* 443-456).  A record is a function from the keys the model's JSON answer *)
(* holds to their values; a JSON null is the value JSNull.                 *)
(***************************************************************************)
Keys == {"beneficiaryName", "accountNumber", "swiftCode", "city", "address",
         "bankName", "goodsDescription"}

JSNull == <<"null">>

\* data[key] || ''
valueOrEmpty(data, key) ==
    IF key \in DOMAIN data
    THEN (IF data[key] = JSNull THEN <<>> ELSE data[key])
    ELSE <<>>

\* The complement of the class [\s.-].
IsKeptInField(c) == c \notin Whitespace \cup {".", "-"}

\* The field normalization with the class of compareAccountNumbers, which
\* drops every character that is not a letter or a digit.
normalizeFieldAlnumOnly(val) == SelectSeq(toLowerCase(val), IsAccountChar)

\* val.toLowerCase().replace(/[\s.-]/g, '')
normalizeField(val) == SelectSeq(toLowerCase(val), IsKeptInField)

\* The rule of the last else branch (line 454).
normalizedEqual(val1, val2) == normalizeField(val1) = normalizeField(val2)

\* The callback of allKeys.forEach with the tolerances 0.7 and 0.8 exchanged.
compareFieldTolerancesSwapped(key, data1, data2) ==
    LET val1 == valueOrEmpty(data1, key)
        val2 == valueOrEmpty(data2, key)
        isMatch ==
            IF key = "beneficiaryName" \/ key = "bankName" THEN fuzzyMatch(val1, val2, 8)
            ELSE IF key = "goodsDescription" THEN fuzzyMatch(val1, val2, 7)
            ELSE IF key = "accountNumber" THEN compareAccountNumbers(val1, val2)
            ELSE normalizedEqual(val1, val2)
    IN  [value1 |-> val1, value2 |-> val2, match |-> isMatch]

\* The callback of allKeys.forEach (lines 447-456): the entry of one key.
compareField(key, data1, data2) ==
    LET val1 == valueOrEmpty(data1, key)
        val2 == valueOrEmpty(data2, key)
        isMatch ==
            IF key = "beneficiaryName" \/ key = "bankName" THEN fuzzyMatch(val1, val2, 7)
            ELSE IF key = "goodsDescription" THEN fuzzyMatch(val1, val2, 8)
            ELSE IF key = "accountNumber" THEN compareAccountNumbers(val1, val2)
            ELSE normalizedEqual(val1, val2)
    IN  [value1 |-> val1, value2 |-> val2, match |-> isMatch]

buildComparison(data1, data2) ==
    [key \in DOMAIN data1 \cup DOMAIN data2 |-> compareField(key, data1, data2)]

(***************************************************************************)
(* The field comparison alone, on two records that hold at most the key    *)
(* compared.                                                               *)
(***************************************************************************)
FieldChars == {"a", "A", " ", ".", "-", "_"}

FieldRecords(key) ==
    {<<>>} \cup {(key :> v) : v \in Strings(FieldChars, MaxValLen) \cup {JSNull}}

InitField ==
    /\ \E key \in Keys :
           call \in [fn : {"compareField"}, key : {key},
                     data1 : FieldRecords(key), data2 : FieldRecords(key)]
    /\ ret = <<>>
    /\ DiffIdle
    /\ AppInit

CallCompareField ==
    /\ call.fn = "compareField"
    /\ ret = <<>>
    /\ ret' = <<compareField(call.key, call.data1, call.data2)>>
    /\ UNCHANGED <<call, diffVars, appVars>>

SpecField == InitField /\ [][CallCompareField]_vars

(***************************************************************************)
(* The App component: its state and its handlers.  The extraction of a     *)
(* file (prepareContentPart, extractDataFromFile, getCompanyInfo) is an    *)
(* external call that settles with a record or throws.                     *)
(***************************************************************************)
DocA ==
    [beneficiaryName |-> <<"a", "b", "a", "b">>,
     accountNumber |-> <<"A", "1">>,
     swiftCode |-> <<"A", "B">>,
     city |-> <<"a", " ", "b">>,
     address |-> <<"a", ".", "b">>,
     bankName |-> <<"a", "b", "a", "b">>,
     goodsDescription |-> <<"a", "b", "a", "b">>]

DocB ==
    [beneficiaryName |-> <<"a", "b", "a", "a">>,
     accountNumber |-> <<"a", " ", "1">>,
     swiftCode |-> <<"a", "b">>,
     city |-> <<"a", "b">>,
     address |-> <<"a", "_", "b">>,
     bankName |-> <<"b", "b", "b", "b">>,
     goodsDescription |-> <<"a", "b", "a", "a">>]

DocC ==
    [beneficiaryName |-> <<>>,
     accountNumber |-> <<"1">>,
     swiftCode |-> JSNull,
     bankName |-> <<"a", "b", "a", "b">>]

\* What extractDataFromFile may return.
DataSet == {DocA, DocB, DocC}

\* What the single-file extraction may return.
SingleDataSet == {DocA}

\* The three messages of lines 416, 462 and 407, by their meaning.
NeedTwoFiles == "upload at least two files"
OneFileFailed == "processing of a file failed"
Unexpected == "unexpected error"
\* The message of a thrown error; an empty message is replaced by Unexpected.
ThrownMessages == {"err.message", ""}

NoRun == [phase |-> "idle", snapshot |-> <<>>, promises |-> <<>>]
NoSingleRun == [pc |-> "idle", data |-> <<>>]

IsPending(pf) == pf.status = "pending"
IsDone(pf) == pf.status = "done"
IsDoneWithData(pf) == pf.status = "done" /\ pf.data # <<>>
IsError(pf) == pf.status = "error"

\* processableFiles.filter(pf => pf.status === 'done' && pf.data).map(pf => pf.data!)
successfulResultsOf(files) ==
    LET dones == SelectSeq(files, IsDoneWithData)
    IN  [k \in 1..Len(dones) |-> dones[k].data[1]]

\* Lines 368-378; the drop zone is disabled and a paste is ignored while loading.
handleFilesSelected ==
    /\ ~isLoading
    /\ error' = <<>>
    /\ \/ /\ activeTab = "single"
          /\ singleFile' = <<"file">>
          /\ singleResult' = <<>>
          /\ UNCHANGED <<processableFiles, comparisonResult, nextId>>
       \/ /\ activeTab = "multi"
          /\ \E count \in 1..(MaxUploads - nextId) :
                 /\ processableFiles' = processableFiles \o
                        [k \in 1..count |->
                            [id |-> nextId + k, status |-> "pending",
                             data |-> <<>>, error |-> <<>>]]
                 /\ nextId' = nextId + count
          /\ comparisonResult' = <<>>
          /\ UNCHANGED <<singleFile, singleResult>>
    /\ UNCHANGED <<activeTab, multiFileResults, isLoading, singleRun, multiRun,
                   helperVars, diffVars>>

\* Lines 380-390; the clear button is rendered when not loading and there is
\* something to clear (lines 512 and 533).
handleClear ==
    /\ ~isLoading
    /\ error' = <<>>
    /\ \/ /\ activeTab = "single"
          /\ singleResult # <<>> \/ error # <<>> \/ singleFile # <<>>
          /\ singleFile' = <<>>
          /\ singleResult' = <<>>
          /\ UNCHANGED <<processableFiles, comparisonResult, multiFileResults>>
       \/ /\ activeTab = "multi"
          /\ comparisonResult # <<>> \/ error # <<>> \/ Len(processableFiles) > 0
          /\ processableFiles' = <<>>
          /\ comparisonResult' = <<>>
          /\ multiFileResults' = <<>>
          /\ UNCHANGED <<singleFile, singleResult>>
    /\ UNCHANGED <<activeTab, isLoading, nextId, singleRun, multiRun,
                   helperVars, diffVars>>

\* Lines 392-394; the button of a listed file, rendered in the multi tab.
handleRemoveMultiFile ==
    /\ activeTab = "multi"
    /\ \E k \in 1..Len(processableFiles) :
           processableFiles' =
               SubSeq(processableFiles, 1, k - 1)
                   \o SubSeq(processableFiles, k + 1, Len(processableFiles))
    /\ UNCHANGED <<activeTab, singleFile, singleResult, comparisonResult,
                   multiFileResults, isLoading, error, nextId, singleRun, multiRun,
                   helperVars, diffVars>>

\* Line 508: the button that drops the single file.
removeSingleFile ==
    /\ activeTab = "single"
    /\ singleFile # <<>>
    /\ singleFile' = <<>>
    /\ UNCHANGED <<activeTab, processableFiles, singleResult, comparisonResult,
                   multiFileResults, isLoading, error, nextId, singleRun, multiRun,
                   helperVars, diffVars>>

\* Line 496: the tab buttons.
setActiveTab ==
    /\ activeTab' \in {"single", "multi"} \ {activeTab}
    /\ UNCHANGED <<singleFile, processableFiles, singleResult, comparisonResult,
                   multiFileResults, isLoading, error, nextId, singleRun, multiRun,
                   helperVars, diffVars>>

\* Lines 396-400: handleProcessSingleFile up to its first await.  The button is
\* rendered in the single tab and disabled without a file or while loading.
handleProcessSingleFile ==
    /\ activeTab = "single"
    /\ ~isLoading
    /\ singleFile # <<>>
    /\ isLoading' = TRUE
    /\ error' = <<>>
    /\ singleResult' = <<>>
    /\ singleRun' = [pc |-> "prepare", data |-> <<>>]
    /\ UNCHANGED <<activeTab, singleFile, processableFiles, comparisonResult,
                   multiFileResults, nextId, multiRun, helperVars, diffVars>>

\* The catch block without the finally block: the loading flag is left set.
singleThrowsWithoutFinally(msg) ==
    /\ error' = <<IF msg = "" THEN Unexpected ELSE msg>>
    /\ singleRun' = NoSingleRun
    /\ UNCHANGED <<singleResult, isLoading>>

\* Lines 406-410: the catch and finally blocks, for an error with message msg.
singleThrows(msg) ==
    /\ error' = <<IF msg = "" THEN Unexpected ELSE msg>>
    /\ isLoading' = FALSE
    /\ singleRun' = NoSingleRun
    /\ UNCHANGED singleResult

\* Line 402: prepareContentPart settles.
singlePrepareSettles ==
    /\ singleRun.pc = "prepare"
    /\ \/ /\ singleRun' = [singleRun EXCEPT !.pc = "extract"]
          /\ UNCHANGED <<singleResult, isLoading, error>>
       \/ \E msg \in ThrownMessages : singleThrows(msg)
    /\ UNCHANGED <<activeTab, singleFile, processableFiles, comparisonResult,
                   multiFileResults, nextId, multiRun, helperVars, diffVars>>

\* Line 403: extractDataFromFile settles.
singleExtractSettles ==
    /\ singleRun.pc = "extract"
    /\ \/ \E data \in SingleDataSet :
              /\ singleRun' = [pc |-> "enrich", data |-> <<data>>]
              /\ UNCHANGED <<singleResult, isLoading, error>>
       \/ \E msg \in ThrownMessages : singleThrows(msg)
    /\ UNCHANGED <<activeTab, singleFile, processableFiles, comparisonResult,
                   multiFileResults, nextId, multiRun, helperVars, diffVars>>

\* Lines 404-410: getCompanyInfo settles; the result is set and loading ends.
singleEnrichSettles ==
    /\ singleRun.pc = "enrich"
    /\ \/ /\ singleResult' = <<[data |-> singleRun.data[1], companyInfo |-> "info"]>>
          /\ isLoading' = FALSE
          /\ singleRun' = NoSingleRun
          /\ UNCHANGED error
       \/ \E msg \in ThrownMessages : singleThrows(msg)
    /\ UNCHANGED <<activeTab, singleFile, processableFiles, comparisonResult,
                   multiFileResults, nextId, multiRun, helperVars, diffVars>>

markProcessing(f) == [f EXCEPT !.status = "processing"]

\* Lines 413-437: handleProcessMultiFile up to await Promise.all.  Every map
\* callback runs to its first await, so each pending file is marked processing
\* here.  The callback closes over the list of the render it was created in,
\* which is the list at the click.  The button is rendered in the multi tab and
\* disabled with fewer than two files or while loading.
handleProcessMultiFile ==
    /\ activeTab = "multi"
    /\ ~isLoading
    /\ Len(processableFiles) >= 2
    /\ LET filesToProcess == SelectSeq(processableFiles, IsPending)
       IN  IF Len(filesToProcess) = 0 /\ Len(SelectSeq(processableFiles, IsDone)) < 2
           THEN /\ error' = <<NeedTwoFiles>>
                /\ UNCHANGED <<processableFiles, isLoading, multiRun>>
           ELSE /\ isLoading' = TRUE
                /\ error' = <<>>
                /\ processableFiles' =
                       [k \in 1..Len(processableFiles) |->
                           IF IsPending(processableFiles[k])
                           THEN markProcessing(processableFiles[k])
                           ELSE processableFiles[k]]
                /\ multiRun' =
                       [phase |-> "awaiting",
                        snapshot |-> processableFiles,
                        promises |->
                            [k \in 1..Len(processableFiles) |->
                                IF IsPending(processableFiles[k])
                                THEN "prepare" ELSE "settled"]]
    /\ UNCHANGED <<activeTab, singleFile, singleResult, comparisonResult,
                   multiFileResults, nextId, singleRun, helperVars, diffVars>>

\* Lines 433-435: the catch block of the map callback of snapshot file k.
multiThrows(k, msg) ==
    /\ processableFiles' =
           [n \in 1..Len(processableFiles) |->
               IF processableFiles[n].id = multiRun.snapshot[k].id
               THEN [processableFiles[n] EXCEPT !.status = "error", !.error = <<msg>>]
               ELSE processableFiles[n]]
    /\ multiRun' = [multiRun EXCEPT !.promises[k] = "settled"]

\* Line 429: prepareContentPart of snapshot file k settles.
multiPrepareSettles ==
    /\ multiRun.phase = "awaiting"
    /\ \E k \in 1..Len(multiRun.snapshot) :
           /\ multiRun.promises[k] = "prepare"
           /\ \/ /\ multiRun' = [multiRun EXCEPT !.promises[k] = "extract"]
                 /\ UNCHANGED processableFiles
              \/ \E msg \in ThrownMessages : multiThrows(k, msg)
    /\ UNCHANGED <<activeTab, singleFile, singleResult, comparisonResult,
                   multiFileResults, isLoading, error, nextId, singleRun,
                   helperVars, diffVars>>

\* Lines 430-432: extractDataFromFile of snapshot file k settles.
multiExtractSettles ==
    /\ multiRun.phase = "awaiting"
    /\ \E k \in 1..Len(multiRun.snapshot) :
           /\ multiRun.promises[k] = "extract"
           /\ \/ \E data \in DataSet :
                     /\ processableFiles' =
                            [n \in 1..Len(processableFiles) |->
                                IF processableFiles[n].id = multiRun.snapshot[k].id
                                THEN [processableFiles[n] EXCEPT
                                          !.status = "done", !.data = <<data>>]
                                ELSE processableFiles[n]]
                     /\ multiRun' = [multiRun EXCEPT !.promises[k] = "settled"]
              \/ \E msg \in ThrownMessages : multiThrows(k, msg)
    /\ UNCHANGED <<activeTab, singleFile, singleResult, comparisonResult,
                   multiFileResults, isLoading, error, nextId, singleRun,
                   helperVars, diffVars>>

\* Lines 439-465: Promise.all has resolved; processableFiles is still the list
\* the callback closed over.
multiFinish ==
    /\ multiRun.phase = "awaiting"
    /\ \A k \in 1..Len(multiRun.snapshot) : multiRun.promises[k] = "settled"
    /\ LET successfulResults == successfulResultsOf(multiRun.snapshot)
       IN  IF Len(successfulResults) >= 2
           THEN /\ comparisonResult' =
                       <<buildComparison(successfulResults[1], successfulResults[2])>>
                /\ multiFileResults' = successfulResults
                /\ UNCHANGED error
           ELSE /\ multiFileResults' = successfulResults
                /\ error' = IF \E k \in 1..Len(multiRun.snapshot) :
                                   IsError(multiRun.snapshot[k])
                            THEN <<OneFileFailed>> ELSE error
                /\ UNCHANGED comparisonResult
    /\ isLoading' = FALSE
    /\ multiRun' = NoRun
    /\ UNCHANGED <<activeTab, singleFile, processableFiles, singleResult, nextId,
                   singleRun, helperVars, diffVars>>

Init ==
    /\ AppInit
    /\ call = NoCall
    /\ ret = <<>>
    /\ DiffIdle

Next ==
    \/ handleFilesSelected
    \/ handleClear
    \/ handleRemoveMultiFile
    \/ removeSingleFile
    \/ setActiveTab
    \/ handleProcessSingleFile
    \/ singlePrepareSettles
    \/ singleExtractSettles
    \/ singleEnrichSettles
    \/ handleProcessMultiFile
    \/ multiPrepareSettles
    \/ multiExtractSettles
    \/ multiFinish

Spec == Init /\ [][Next]_vars

\* Line 439: Promise.all has resolved and the handler resumes.  The step is
\* told by the end of the run alone; what else it does is multiFinish.
multiResumes ==
    /\ multiRun.phase = "awaiting"
    /\ \A k \in 1..Len(multiRun.snapshot) : multiRun.promises[k] = "settled"
    /\ multiRun' = NoRun
    /\ UNCHANGED singleRun

\* The continuations of the two process actions: an awaited external call
\* settles, or the handler resumes after Promise.all.
Settle ==
    \/ singlePrepareSettles
    \/ singleExtractSettles
    \/ singleEnrichSettles
    \/ multiPrepareSettles
    \/ multiExtractSettles
    \/ multiResumes

\* The position of the two process actions; every continuation changes it.
runVars == <<singleRun, multiRun>>

\* The App when every pending external call settles and every continuation
\* that is ready runs.
SpecSettling == Spec /\ WF_runVars(Settle)

(***************************************************************************)
(* Properties of compareAccountNumbers.                                    *)
(***************************************************************************)
AsciiAlnum == AsciiUpper \cup AsciiLower \cup AsciiDigits

\* The normalized form of an account number: the characters other than ASCII
\* letters and digits dropped, the others upper-cased, one character at a time.
RECURSIVE AccountNormalForm(_)
AccountNormalForm(s) ==
    IF s = <<>> THEN <<>>
    ELSE IF Head(s) \in AsciiAlnum
         THEN <<UpperOf(Head(s))>> \o AccountNormalForm(Tail(s))
         ELSE AccountNormalForm(Tail(s))

\* s is some prefix of itself followed by t.
IsSuffixOf(t, s) == \E k \in 0..Len(s) : s = SubSeq(s, 1, k) \o t

AccountCallDone == call.fn = "compareAccountNumbers" /\ ret # <<>>

\* C2: compareAccountNumbers returns false whenever the normalized form of
\* either argument is empty, also when both are empty.
AbsenceIsNeverAgreement ==
    AccountCallDone =>
        ((AccountNormalForm(call.acc1) = <<>> \/ AccountNormalForm(call.acc2) = <<>>)
            => ret[1] = FALSE)

\* Two non-empty arguments of separators only: both normalize to the same
\* empty string, and the call returned false.
AbsenceWitness ==
    /\ AccountCallDone
    /\ call.acc1 = <<" ">>
    /\ call.acc2 = <<" ", " ">>
    /\ ret[1] = FALSE

\* C3: when both normalized forms are non-empty, compareAccountNumbers returns
\* true exactly when they are equal or the longer one ends with the shorter one.
AccountMatchIsEqualOrSuffix ==
    AccountCallDone =>
        LET n1 == AccountNormalForm(call.acc1)
            n2 == AccountNormalForm(call.acc2)
            long == IF Len(n1) >= Len(n2) THEN n1 ELSE n2
            short == IF Len(n1) >= Len(n2) THEN n2 ELSE n1
        IN  (n1 # <<>> /\ n2 # <<>>) =>
                (ret[1] = TRUE <=> (n1 = n2 \/ IsSuffixOf(short, long)))

\* A lower-case, spaced argument matched by the suffix rule against a shorter
\* upper-case one.
AccountSuffixWitness ==
    /\ AccountCallDone
    /\ call.acc1 = <<"a", " ", "1">>
    /\ call.acc2 = <<"1">>
    /\ ret[1] = TRUE

(***************************************************************************)
(* Properties of fuzzyMatch and calculateLevenshteinDistance.              *)
(***************************************************************************)
\* The strings one single-character insertion, deletion or substitution away
\* from s, over chars and no longer than maxLen.
EditsOf(s, chars, maxLen) ==
    LET n == Len(s)
    IN  {SubSeq(s, 1, k - 1) \o SubSeq(s, k + 1, n) : k \in 1..n}
        \cup {[s EXCEPT ![k] = c] : k \in 1..n, c \in chars}
        \cup (IF n < maxLen
              THEN {SubSeq(s, 1, k) \o <<c>> \o SubSeq(s, k + 1, n) : k \in 0..n, c \in chars}
              ELSE {})

\* The least number of edits after which target is among the strings reached.
RECURSIVE MinEditsFrom(_, _, _, _, _)
MinEditsFrom(reached, target, n, chars, maxLen) ==
    IF target \in reached THEN n
    ELSE MinEditsFrom(reached \cup UNION {EditsOf(s, chars, maxLen) : s \in reached},
                      target, n + 1, chars, maxLen)

EditDistance(a, b) == MinEditsFrom({a}, b, 0, FuzzyChars, Max(Len(a), Len(b)))

FuzzyCallDone == call.fn = "fuzzyMatch" /\ ret # <<>>
LevenshteinCallDone == call.fn = "calculateLevenshteinDistance" /\ ret # <<>>

\* C4: fuzzyMatch(s, s, t) is true for every string s and every tolerance t <= 1.
FuzzyMatchIsReflexive ==
    FuzzyCallDone =>
        ((call.str1 = call.str2 /\ call.tolerance <= 10) => ret[1] = TRUE)

\* A non-empty string matched against itself at tolerance 1.
FuzzyReflexiveWitness ==
    /\ FuzzyCallDone
    /\ call.str1 = call.str2
    /\ Len(call.str1) = MaxStrLen
    /\ call.tolerance = 10
    /\ ret[1] = TRUE

\* C5: at every tolerance, fuzzyMatch is true when both strings are empty and
\* false when exactly one of them is.
FuzzyMatchOnEmpty ==
    FuzzyCallDone =>
        /\ (call.str1 = <<>> /\ call.str2 = <<>>) => ret[1] = TRUE
        /\ ((call.str1 = <<>>) # (call.str2 = <<>>)) => ret[1] = FALSE

\* Exactly one string empty at a tolerance below zero, which every similarity
\* would reach: the call returned false.
FuzzyOneEmptyWitness ==
    /\ FuzzyCallDone
    /\ call.str1 = <<>>
    /\ call.str2 # <<>>
    /\ call.tolerance < 0
    /\ ret[1] = FALSE

FuzzyMatchOffEquality ==
    /\ FuzzyCallDone =>
           LET d == EditDistance(call.str1, call.str2)
               m == Max(Len(call.str1), Len(call.str2))
           IN  (call.str1 # <<>> /\ call.str2 # <<>>) =>
                   /\ 10 * (m - d) > call.tolerance * m => ret[1] = TRUE
                   /\ 10 * (m - d) < call.tolerance * m => ret[1] = FALSE
                   /\ call.tolerance \in {7, 8} =>
                          (ret[1] = TRUE <=> 10 * (m - d) >= call.tolerance * m)
    /\ LevenshteinCallDone => ret[1] = EditDistance(call.str1, call.str2)

\* Two different non-empty strings of different lengths that still match:
\* their similarity is below 1 and reaches the tolerance.
FuzzySimilarityWitness ==
    /\ FuzzyCallDone
    /\ call.str1 # <<>>
    /\ call.str2 # <<>>
    /\ Len(call.str1) # Len(call.str2)
    /\ call.tolerance > 0
    /\ ret[1] = TRUE

\* C7: calculateLevenshteinDistance(a, b) = calculateLevenshteinDistance(b, a).
LevenshteinIsSymmetric ==
    LevenshteinCallDone =>
        ret[1] = calculateLevenshteinDistance(call.str2, call.str1)

\* A pair of different lengths at distance two or more, with the same distance
\* both ways round.
LevenshteinSymmetricWitness ==
    /\ LevenshteinCallDone
    /\ call.str1 # <<>>
    /\ Len(call.str2) > Len(call.str1)
    /\ ret[1] >= 2
    /\ ret[1] = calculateLevenshteinDistance(call.str2, call.str1)

(***************************************************************************)
(* Properties of diffStrings.                                              *)
(***************************************************************************)
\* The values of the spans, concatenated in order.
RECURSIVE ConcatValues(_)
ConcatValues(spans) ==
    IF spans = <<>> THEN <<>>
    ELSE Head(spans).value \o ConcatValues(Tail(spans))

NotRemoved(span) == ~span.removed
NotAdded(span) == ~span.added

\* C1: the spans returned by diffStrings(old, new) reconstruct both inputs:
\* those not removed spell new, those not added spell old.
DiffReconstructsInputs ==
    dpc = "done" =>
        /\ ConcatValues(SelectSeq(coalesced, NotRemoved)) = newChars
        /\ ConcatValues(SelectSeq(coalesced, NotAdded)) = oldChars

\* A returned diff with an unchanged, an added and a removed span.
DiffReconstructsWitness ==
    /\ dpc = "done"
    /\ \E k \in 1..Len(coalesced) : coalesced[k].added
    /\ \E k \in 1..Len(coalesced) : coalesced[k].removed
    /\ \E k \in 1..Len(coalesced) : ~coalesced[k].added /\ ~coalesced[k].removed
    /\ ConcatValues(SelectSeq(coalesced, NotRemoved)) = newChars
    /\ ConcatValues(SelectSeq(coalesced, NotAdded)) = oldChars

\* C10: for a non-empty s, diffStrings(s, s) is one span of value s, tagged
\* neither added nor removed.
DiffOfEqualIsOneSpan ==
    (dpc = "done" /\ oldChars = newChars /\ oldChars # <<>>) =>
        coalesced = <<[value |-> oldChars, added |-> FALSE, removed |-> FALSE]>>

\* diffStrings(s, s) has returned for an s of several different characters.
DiffOfEqualWitness ==
    /\ dpc = "done"
    /\ oldChars = newChars
    /\ Len(oldChars) >= 2
    /\ oldChars[1] # oldChars[2]
    /\ Len(coalesced) = 1

(***************************************************************************)
(* Properties of the comparison of two records.                            *)
(***************************************************************************)
\* The value compared for a key: the record's value, or the empty string when
\* the key is missing or null.
MissingAsEmpty(data, key) ==
    IF key \notin DOMAIN data THEN <<>>
    ELSE IF data[key] = JSNull THEN <<>>
    ELSE data[key]

\* The normalized form of another field, one character at a time: lower-cased,
\* with whitespace, dots and hyphens dropped.
RECURSIVE FieldNormalForm(_)
FieldNormalForm(s) ==
    IF s = <<>> THEN <<>>
    ELSE IF Head(s) \in {" ", "\t", ".", "-"}
         THEN FieldNormalForm(Tail(s))
         ELSE <<LowerOf(Head(s))>> \o FieldNormalForm(Tail(s))

\* The rule table of the field kinds.
MatchByFieldKind(key, v1, v2) ==
    CASE key \in {"beneficiaryName", "bankName"} -> fuzzyMatch(v1, v2, 7)
      [] key = "goodsDescription" -> fuzzyMatch(v1, v2, 8)
      [] key = "accountNumber" -> compareAccountNumbers(v1, v2)
      [] OTHER -> FieldNormalForm(v1) = FieldNormalForm(v2)

\* C8: a comparison holds, for each key of the two compared records, exactly
\* the two compared values (a missing one as the empty string) and the match
\* flag the rule of the key's field kind gives on them: fuzzyMatch at 0.7 for
\* beneficiaryName and bankName, fuzzyMatch at 0.8 for goodsDescription,
\* compareAccountNumbers for accountNumber.
ComparisonFollowsFieldRules ==
    comparisonResult # <<>> =>
        /\ Len(multiFileResults) >= 2
        /\ LET data1 == multiFileResults[1]
               data2 == multiFileResults[2]
               comparison == comparisonResult[1]
           IN  /\ DOMAIN comparison = DOMAIN data1 \cup DOMAIN data2
               /\ \A key \in DOMAIN comparison :
                      LET v1 == MissingAsEmpty(data1, key)
                          v2 == MissingAsEmpty(data2, key)
                      IN  comparison[key] =
                              [value1 |-> v1, value2 |-> v2,
                               match |-> MatchByFieldKind(key, v1, v2)]

\* A comparison of two records whose names are 0.75 similar: the beneficiary
\* names match at 0.7, the goods descriptions do not at 0.8, the account
\* numbers match and the addresses do not.
ComparisonBuiltWitness ==
    /\ comparisonResult # <<>>
    /\ Len(multiFileResults) >= 2
    /\ multiFileResults[1] = DocA
    /\ multiFileResults[2] = DocB
    /\ comparisonResult[1]["beneficiaryName"].match = TRUE
    /\ comparisonResult[1]["goodsDescription"].match = FALSE
    /\ comparisonResult[1]["accountNumber"].match = TRUE
    /\ comparisonResult[1]["address"].match = FALSE

FieldCallDone == call.fn = "compareField" /\ ret # <<>>

\* C9: for swiftCode, city and address the match flag is true exactly when the
\* two values are equal after lower-casing and dropping whitespace, dots and
\* hyphens; two values that are missing or normalize to the empty string match.
OtherFieldsMatchOnNormalForm ==
    (FieldCallDone /\ call.key \in {"swiftCode", "city", "address"}) =>
        LET n1 == FieldNormalForm(MissingAsEmpty(call.data1, call.key))
            n2 == FieldNormalForm(MissingAsEmpty(call.data2, call.key))
        IN  /\ ret[1].match = (n1 = n2)
            /\ (n1 = <<>> /\ n2 = <<>>) => ret[1].match = TRUE

\* A missing city compared with a city of separators only: they match.
OtherFieldsWitness ==
    /\ FieldCallDone
    /\ call.key = "city"
    /\ call.data1 = <<>>
    /\ call.data2 = ("city" :> <<" ", ".">>)
    /\ ret[1].match = TRUE

DiffDone == dpc = "done"

\* C11: with an empty old string and a non-empty new one diffStrings returns one
\* added span holding the new string; with a non-empty old string and an empty
\* new one it returns one removed span holding the old string; with both empty
\* it returns the empty list.
DiffOnEmptyInputs ==
    DiffDone =>
        /\ (oldChars = <<>> /\ newChars # <<>>) =>
               coalesced = <<Span(newChars, TRUE, FALSE)>>
        /\ (oldChars # <<>> /\ newChars = <<>>) =>
               coalesced = <<Span(oldChars, FALSE, TRUE)>>
        /\ (oldChars = <<>> /\ newChars = <<>>) => coalesced = <<>>

\* diffStrings has returned for an old string of several different characters
\* and an empty new string.
DiffOnEmptyWitness ==
    /\ DiffDone
    /\ newChars = <<>>
    /\ Len(oldChars) >= 2
    /\ oldChars[1] # oldChars[2]
    /\ Len(coalesced) = 1

\* The subsequences of s: the characters at a set of positions, in order.
RECURSIVE Pick(_, _, _)
Pick(s, positions, k) ==
    IF k > Len(s) THEN <<>>
    ELSE (IF k \in positions THEN <<s[k]>> ELSE <<>>) \o Pick(s, positions, k + 1)

Subsequences(s) == {Pick(s, positions, 1) : positions \in SUBSET (1..Len(s))}

\* The length of a longest common subsequence, by enumeration.
LcsLength(a, b) ==
    MaxOf({Len(x) : x \in Subsequences(a) \cap Subsequences(b)})

IsUnchanged(span) == ~span.added /\ ~span.removed
IsChanged(span) == span.added \/ span.removed

\* C13: the characters in the unchanged spans of diffStrings(old, new) number
\* the length of a longest common subsequence of old and new, and those in the
\* added and removed spans number len(old) + len(new) - 2 * LCS(old, new).
DiffIsMinimal ==
    DiffDone =>
        LET lcs == LcsLength(oldChars, newChars)
        IN  /\ Len(ConcatValues(SelectSeq(coalesced, IsUnchanged))) = lcs
            /\ Len(ConcatValues(SelectSeq(coalesced, IsChanged)))
                   = Len(oldChars) + Len(newChars) - 2 * lcs

\* diffStrings has returned for two strings whose longest common subsequence is
\* shorter than both and is not a common prefix or suffix.
DiffIsMinimalWitness ==
    /\ DiffDone
    /\ oldChars = <<"a", "b", "c">>
    /\ newChars = <<"b", "c", "a">>
    /\ Len(ConcatValues(SelectSeq(coalesced, IsUnchanged))) = 2

\* A position of the back-trace with characters left in both strings whose
\* trailing characters differ.
AtMismatch ==
    /\ dpc = "trace"
    /\ i > 0
    /\ j > 0
    /\ oldChars[i] # newChars[j]

\* The step from such a position: the new character as added when dropping it
\* reaches a cell at least as large as dropping the old one, else the old
\* character as removed.
MismatchStep ==
    AtMismatch =>
        IF matrix[i][j - 1] >= matrix[i - 1][j]
        THEN /\ result' = <<Span(<<newChars[j]>>, TRUE, FALSE)>> \o result
             /\ j' = j - 1
             /\ i' = i
        ELSE /\ result' = <<Span(<<oldChars[i]>>, FALSE, TRUE)>> \o result
             /\ i' = i - 1
             /\ j' = j

DiffOfAbcAxc ==
    (DiffDone /\ oldChars = <<"a", "b", "c">> /\ newChars = <<"a", "x", "c">>) =>
        coalesced = <<Span(<<"a">>, FALSE, FALSE), Span(<<"b">>, FALSE, TRUE),
                      Span(<<"x">>, TRUE, FALSE), Span(<<"c">>, FALSE, FALSE)>>

\* C14: at a mismatch with characters left in both strings the back-trace takes
\* the new character as added when matrix[i][j-1] >= matrix[i-1][j], ties
\* included, and otherwise the old character as removed; diffStrings("abc",
\* "axc") is unchanged "a", removed "b", added "x", unchanged "c".
TiesGoToAdded == [][MismatchStep]_vars /\ []DiffOfAbcAxc

\* diffStrings("abc", "axc") has returned with the removed run before the
\* added run: the tie at "b" against "x" was taken as added first.
TiesGoToAddedWitness ==
    /\ DiffDone
    /\ oldChars = <<"a", "b", "c">>
    /\ newChars = <<"a", "x", "c">>
    /\ Len(coalesced) = 4
    /\ coalesced[2].removed
    /\ coalesced[3].added

Classification(span) ==
    IF span.added THEN "added" ELSE IF span.removed THEN "removed" ELSE "unchanged"

\* C15: in the list diffStrings returns no span has an empty value, none is
\* tagged both added and removed, and no two adjacent spans have the same
\* classification.
DiffSpansAreMaximalRuns ==
    DiffDone =>
        /\ \A k \in 1..Len(coalesced) :
               /\ coalesced[k].value # <<>>
               /\ ~(coalesced[k].added /\ coalesced[k].removed)
        /\ \A k \in 1..(Len(coalesced) - 1) :
               Classification(coalesced[k]) # Classification(coalesced[k + 1])

\* A returned list of three spans of three classifications, the unchanged one
\* joined from two characters.
DiffSpansWitness ==
    /\ DiffDone
    /\ Len(coalesced) = 3
    /\ {Classification(coalesced[k]) : k \in 1..3} = {"unchanged", "added", "removed"}
    /\ \E k \in 1..3 : IsUnchanged(coalesced[k]) /\ Len(coalesced[k].value) = 2

\* The back-trace loop is running: characters remain in either string.
InLoop == dpc = "trace" /\ loopCondition

\* How many of the three branches the if / else-if chain takes at this state.
BranchesTaken ==
    Cardinality({b \in {"unchanged", "added", "removed"} :
                    \/ b = "unchanged" /\ ENABLED TraceUnchanged
                    \/ b = "added" /\ ENABLED TraceAdded
                    \/ b = "removed" /\ ENABLED TraceRemoved})

\* An iteration of the loop leaves fewer characters remaining.
IterationProgresses == (InLoop /\ dpc' = "trace") => i' + j' < i + j

\* Each iteration has put one span on result and taken at least one character,
\* so the iterations so far and the characters remaining stay within the total.
IterationsBounded ==
    dpc \in {"trace", "done"} =>
        /\ i >= 0
        /\ j >= 0
        /\ Len(result) + i + j <= Len(oldChars) + Len(newChars)

\* C16: diffStrings returns for every pair of strings: while characters remain
\* exactly one branch of the back-trace is taken, it lowers the number of
\* remaining characters, the loop runs at most len(old) + len(new) times, and
\* from the start of the back-trace until the result is returned there is
\* always a next step.
DiffTerminates ==
    /\ [](InLoop => BranchesTaken = 1)
    /\ [][IterationProgresses]_vars
    /\ []IterationsBounded
    /\ [](dpc = "trace" => ENABLED NextDiff)

\* diffStrings has returned after len(old) + len(new) iterations, on two
\* strings of three characters with none in common.
DiffTerminatesWitness ==
    /\ DiffDone
    /\ Len(oldChars) = 3
    /\ Len(newChars) = 3
    /\ Len(result) = 6
    /\ i = 0
    /\ j = 0

(***************************************************************************)
(* The runs of the two process actions.                                    *)
(***************************************************************************)
\* The step on which a run of the multi-file action ends.
MultiRunEnds == multiRun.phase = "awaiting" /\ multiRun'.phase = "idle"

\* The file of the list with the id of file k of the run, if it is still listed.
ListedAs(k) ==
    {n \in 1..Len(processableFiles) : processableFiles[n].id = multiRun.snapshot[k].id}

\* File k of the run was pending at its start and its extraction succeeded.
ExtractedInRun(k) ==
    /\ IsPending(multiRun.snapshot[k])
    /\ \E n \in ListedAs(k) : IsDoneWithData(processableFiles[n])

\* File k of the run was pending at its start and its extraction failed.
FailedInRun(k) ==
    /\ IsPending(multiRun.snapshot[k])
    /\ \E n \in ListedAs(k) : IsError(processableFiles[n])

\* The step that ends a run started with two pending files, both extracted.
FirstRunOfTwoEnds ==
    /\ MultiRunEnds
    /\ Len(multiRun.snapshot) = 2
    /\ ExtractedInRun(1)
    /\ ExtractedInRun(2)

\* C12: the step that ends a run of handleProcessMultiFile started with two
\* pending files, both extracted, leaves the loading flag down and a comparison
\* set that holds one entry per field of the two extracted records.
ComparisonSetByTheRun ==
    [][FirstRunOfTwoEnds =>
          /\ ~isLoading'
          /\ comparisonResult' # <<>>
          /\ \E n1 \in ListedAs(1), n2 \in ListedAs(2) :
                 DOMAIN comparisonResult'[1] =
                     DOMAIN processableFiles[n1].data[1]
                         \cup DOMAIN processableFiles[n2].data[1]]_vars

\* The files of the list whose extraction has succeeded.
SuccessfullyExtracted == SelectSeq(processableFiles, IsDoneWithData)

\* The step that ends a run with fewer than two extracted files and a file
\* that failed in the run.
RunWithFailureEnds ==
    /\ MultiRunEnds
    /\ Len(SuccessfullyExtracted) < 2
    /\ \E k \in 1..Len(multiRun.snapshot) : FailedInRun(k)

\* C17: the step that ends a run of handleProcessMultiFile with fewer than two
\* successfully extracted files, one file at least having failed in the run,
\* leaves the message of a failed file set.
FailureReportedByTheRun ==
    [][RunWithFailureEnds => error' = <<OneFileFailed>>]_vars

\* C18: whenever the loading flag is set it is later released, the external
\* calls settling with a result or an error.
LoadingIsReleased == isLoading ~> ~isLoading

\* The loading flag is down after a run of the multi-file action in which an
\* extraction threw, and after a run of the single-file action that threw.
LoadingReleasedWitness ==
    /\ ~isLoading
    /\ multiRun = NoRun
    /\ singleRun = NoSingleRun
    /\ \E k \in 1..Len(processableFiles) : IsError(processableFiles[k])
    /\ error = <<Unexpected>>


=============================================================================
